---- MODULE Spec2Model ----
(***************************************************************************)
(* Model of the battery model extraction library: the DischargeData       *)
(* dataset (discharge_data.py) and the two estimators NonParametric and   *)
(* PolynomialFit (models.py).                                              *)
(*                                                                         *)
(* Python objects are functions from attribute names to values, so that   *)
(* an attribute that was never assigned is simply not in the DOMAIN and a *)
(* read of it is an AttributeError.  Floating point numbers are modelled  *)
(* as exact rationals <<num, den>> in lowest terms with den > 0.          *)
(***************************************************************************)
EXTENDS Integers, Sequences, FiniteSets, TLC

VARIABLES book, d, p, n, last

vars == <<book, d, p, n, last>>

(* ------------------------------ bounds -------------------------------- *)
MaxCap == 2          \* nominal capacities 1..MaxCap [Ah]
MaxX == 3            \* every sheet holds the raw samples x = j/MaxX, j in 0..MaxX
MaxDeg == 1          \* polynomial degrees Ne, Nr range over 0..MaxDeg
WinSteps == 2        \* window bounds range over k/WinSteps, k in 0..WinSteps

(* --------------------------- exact numbers ---------------------------- *)
Abs(a) == IF a < 0 THEN -a ELSE a

RECURSIVE GCD(_, _)
GCD(a, b) == IF b = 0 THEN a ELSE GCD(b, a % b)

Rat(num, den) ==
    LET g == GCD(Abs(num), Abs(den))
        s == IF den < 0 THEN -1 ELSE 1
    IN  <<(s * num) \div g, (s * den) \div g>>

R(i) == <<i, 1>>
RAdd(a, b) == Rat(a[1] * b[2] + b[1] * a[2], a[2] * b[2])
RSub(a, b) == Rat(a[1] * b[2] - b[1] * a[2], a[2] * b[2])
RMul(a, b) == Rat(a[1] * b[1], a[2] * b[2])
RDiv(a, b) == Rat(a[1] * b[2], a[2] * b[1])
RNeg(a) == <<-a[1], a[2]>>
RLt(a, b) == a[1] * b[2] < b[1] * a[2]

RECURSIVE RPow(_, _)
RPow(a, i) == IF i = 0 THEN R(1) ELSE RMul(a, RPow(a, i - 1))

(* ------------------------- python object model ------------------------ *)
NoObj == [unbound |-> TRUE]
NewObj == [class |-> "object"]
HasAttr(self, name) == name \in DOMAIN self
SetAttr(self, name, v) ==
    [a \in (DOMAIN self) \cup {name} |-> IF a = name THEN v ELSE self[a]]

Ok == [kind |-> "ok"]
Value(v) == [kind |-> "value", val |-> v]
Raise(exc, what) == [kind |-> "raise", exc |-> exc, what |-> what]

(* ------------------------ the excel workbook -------------------------- *)
\* A sheet name is kept as the list of its whitespace separated words, the
\* result of str.split(); a sheet holds the MaxX+1 rows (x, V) with
\* x = 0, 1/MaxX, .., 1 and a voltage that falls with x and with the rate.
Sheet(name, k) ==
    [name |-> name,
     rows |-> [j \in 1..(MaxX + 1) |-> <<Rat(j - 1, MaxX), R(10 - (j - 1) - k)>>]]

Books ==
    { <<Sheet(<<"c_rate", "1">>, 1)>>,
      <<Sheet(<<"c_rate", "1">>, 1), Sheet(<<"c_rate", "2">>, 2)>>,
      <<Sheet(<<"c_rate", "0.5">>, 1), Sheet(<<"c_rate", "1C">>, 2)>> }

\* float(): the words that parse as a number, and their value
FloatOf == ("1" :> R(1)) @@ ("2" :> R(2)) @@ ("0.5" :> Rat(1, 2))

(* ---------------------------- DischargeData --------------------------- *)
DischargeVar == {"DOD", "SOC", "MAH", "AH"}
\* what a caller may pass as the convention: a member of the enum, some
\* other value (None), or nothing at all
ConvArgs == DischargeVar \cup {"None", "MISSING"}
Caps == 1..MaxCap
WinVals == {Rat(k, WinSteps) : k \in 0..WinSteps}

\* SheetFrame with the mAh branch scaled like the Ah branch
SheetFrame_mAh_as_Ah(sheet, c_rate, cap, discharge_var) ==
    [j \in 1..Len(sheet.rows) |->
        LET x == sheet.rows[j][1]
            V == sheet.rows[j][2]
            DoD == CASE discharge_var = "SOC" -> RSub(R(1), x)
                     [] discharge_var = "DOD" -> x
                     [] discharge_var = "MAH" -> RDiv(x, R(cap))
                     [] discharge_var = "AH"  -> RDiv(x, R(cap))
            SoC == IF discharge_var = "SOC" THEN x ELSE RSub(R(1), DoD)
        IN  [DoD |-> DoD, SoC |-> SoC, V |-> V, C_rate |-> c_rate,
             I_A |-> RMul(c_rate, R(cap))]]

\* lines 92-115: one sheet's frame with the computed columns
SheetFrame(sheet, c_rate, cap, discharge_var) ==
    [j \in 1..Len(sheet.rows) |->
        LET x == sheet.rows[j][1]
            V == sheet.rows[j][2]
            DoD == CASE discharge_var = "SOC" -> RSub(R(1), x)
                     [] discharge_var = "DOD" -> x
                     [] discharge_var = "MAH" -> RDiv(x, RMul(R(cap), R(1000)))
                     [] discharge_var = "AH"  -> RDiv(x, R(cap))
            SoC == IF discharge_var = "SOC" THEN x ELSE RSub(R(1), DoD)
        IN  [DoD |-> DoD, SoC |-> SoC, V |-> V, C_rate |-> c_rate,
             I_A |-> RMul(c_rate, R(cap))]]

\* lines 83-120: the loop over the sheets; the first sheet that cannot be
\* processed raises and ends the load
RECURSIVE load_loop(_, _, _, _, _)
load_loop(sheets, i, cap, discharge_var, dfs) ==
    IF i > Len(sheets) THEN [kind |-> "ok", data |-> dfs]
    ELSE LET name == sheets[i].name IN
         IF name = <<>> THEN Raise("IndexError", "sheet name")
         ELSE IF name[Len(name)] \notin DOMAIN FloatOf
              THEN Raise("ValueError", "could not convert string to float")
         ELSE IF discharge_var \notin DischargeVar
              THEN Raise("ValueError", "Invalid value for discharge_var")
         ELSE load_loop(sheets, i + 1, cap, discharge_var,
                        dfs \o SheetFrame(sheets[i], FloatOf[name[Len(name)]],
                                          cap, discharge_var))

\* lines 56-120: load_data on the object self; returns the object after the
\* call and the call's outcome
load_data(self, file, nominal_capacity_Ah, discharge_var) ==
    LET s1 == SetAttr(self, "nominal_capacity_Ah", R(nominal_capacity_Ah))
        r == load_loop(file, 1, nominal_capacity_Ah, discharge_var, <<>>)
    IN  IF r.kind = "ok"
        THEN [self |-> SetAttr(s1, "_data", r.data), out |-> Ok]
        ELSE [self |-> s1, out |-> r]

\* lines 16-54: d = DischargeData(file, x_axis, nominal_capacity_Ah, lo, hi)
DischargeData_init(x_axis, cap, dod_lower, dod_upper) ==
    /\ d = NoObj
    /\ IF x_axis = "MISSING"
       THEN /\ d' = d
            /\ last' = [op |-> "DischargeData", args |-> <<x_axis, cap>>,
                        out |-> Raise("TypeError", "missing argument x_axis")]
       ELSE LET r == load_data(NewObj, book, cap, x_axis) IN
            /\ d' = IF r.out.kind = "ok"
                    THEN SetAttr(SetAttr(r.self, "dod_lower", dod_lower),
                                 "dod_upper", dod_upper)
                    ELSE NoObj
            /\ last' = [op |-> "DischargeData", args |-> <<x_axis, cap>>,
                        out |-> r.out]
    /\ UNCHANGED <<book, p, n>>

\* lines 56-120: d.load_data(file, nominal_capacity_Ah, discharge_var) on the
\* existing dataset
load_data_call(discharge_var, cap) ==
    /\ d # NoObj
    /\ IF discharge_var = "MISSING"
       THEN /\ d' = d
            /\ last' = [op |-> "load_data", args |-> <<discharge_var, cap>>,
                        out |-> Raise("TypeError", "missing argument discharge_var")]
       ELSE LET r == load_data(d, book, cap, discharge_var) IN
            /\ d' = r.self
            /\ last' = [op |-> "load_data", args |-> <<discharge_var, cap>>,
                        out |-> r.out]
    /\ UNCHANGED <<book, p, n>>

\* lines 53-54 as used by callers: d.dod_lower = lo; d.dod_upper = hi
set_bounds(dod_lower, dod_upper) ==
    /\ d # NoObj
    /\ d' = [d EXCEPT !.dod_lower = dod_lower, !.dod_upper = dod_upper]
    /\ last' = [op |-> "set_bounds", args |-> <<dod_lower, dod_upper>>, out |-> Ok]
    /\ UNCHANGED <<book, p, n>>

\* lines 122-124: the data property
data(self) == self._data

\* data_cropped with the window's ends included
data_cropped_inclusive(self) ==
    SelectSeq(data(self),
              LAMBDA row : ~RLt(row.DoD, self.dod_lower) /\ ~RLt(self.dod_upper, row.DoD))

\* lines 126-137: the data_cropped property (a filtered copy, recomputed)
data_cropped(self) ==
    SelectSeq(data(self),
              LAMBDA row : RLt(self.dod_lower, row.DoD) /\ RLt(row.DoD, self.dod_upper))

view ==
    /\ d # NoObj
    /\ last' = [op |-> "data", args |-> <<>>, out |-> Value(data(d))]
    /\ UNCHANGED <<book, d, p, n>>

restricted_view ==
    /\ d # NoObj
    /\ last' = [op |-> "data_cropped", args |-> <<>>, out |-> Value(data_cropped(d))]
    /\ UNCHANGED <<book, d, p, n>>

(* ---------------------------- PolynomialFit --------------------------- *)
Degs == 0..MaxDeg
\* the depths of discharge the estimators are queried at
Dods == {Rat(k, WinSteps) : k \in 0..1}

\* symbolic results of the numerical routines whose numbers no property
\* reads: the k-th number of the least squares solution of (X, y), a
\* polynomial value, a difference and a product
Lsq(k, X, y) == [lsq |-> k, X |-> X.rows, y |-> y]
TPolyval(coeffs, x) == [polyval |-> coeffs, x |-> x]
TSub(a, b) == [sub |-> <<a, b>>]
TMul(a, b) == [mul |-> <<a, b>>]

Reverse(s) == [i \in 1..Len(s) |-> s[Len(s) + 1 - i]]

\* the constructor with the coefficient vector preset to an empty array
PolynomialFit_init_preset ==
    /\ d # NoObj
    /\ p = NoObj
    /\ p' = [data |-> "d", reg_model |-> [fit_intercept |-> TRUE],
             Ne |-> 0, Nr |-> 0, w_vec |-> <<>>]
    /\ last' = [op |-> "PolynomialFit", args |-> <<>>, out |-> Ok]
    /\ UNCHANGED <<book, d, n>>

\* lines 71-76: p = PolynomialFit(d)
PolynomialFit_init ==
    /\ d # NoObj
    /\ p = NoObj
    /\ p' = [data |-> "d", reg_model |-> [fit_intercept |-> TRUE]]
    /\ last' = [op |-> "PolynomialFit", args |-> <<>>, out |-> Ok]
    /\ UNCHANGED <<book, d, n>>

\* lines 78-89: the feature matrix over the cropped view: D^1..D^Ne, then
\* -I*D^0..-I*D^Nr
get_X(dataset, Ne, Nr) ==
    LET crop == data_cropped(dataset) IN
    [cols |-> [i \in 1..Ne |-> <<"D^", i>>] \o [i \in 1..(Nr + 1) |-> <<"-ID^", i - 1>>],
     rows |-> [r \in 1..Len(crop) |->
                 [i \in 1..Ne |-> RPow(crop[r].DoD, i)]
                 \o [i \in 1..(Nr + 1) |->
                        RMul(RNeg(crop[r].I_A), RPow(crop[r].DoD, i - 1))]]]

\* line 96: LinearRegression(fit_intercept=True).fit(X, y); an empty X is
\* refused, any other X (also one with fewer rows than columns) is solved
LinearRegression_fit(reg, X, y) ==
    IF Len(X.rows) = 0
    THEN [self |-> reg, out |-> Raise("ValueError", "Found array with 0 sample(s)")]
    ELSE [self |-> SetAttr(SetAttr(reg, "coef_",
                                   [k \in 1..Len(X.cols) |-> Lsq(k, X, y)]),
                           "intercept_", Lsq(0, X, y)),
          out |-> Ok]

\* fit_model that crops the dataset's table in place before fitting
fit_model_inplace(Ne, Nr) ==
    /\ p # NoObj
    /\ LET s1 == SetAttr(SetAttr(p, "Ne", Ne), "Nr", Nr)
           X == get_X(d, Ne, Nr)
           y == [r \in 1..Len(data_cropped(d)) |-> data_cropped(d)[r].V]
           r == LinearRegression_fit(p.reg_model, X, y)
       IN  /\ p' = IF r.out.kind = "ok"
                   THEN SetAttr(SetAttr(s1, "reg_model", r.self), "w_vec",
                                <<r.self.intercept_>> \o r.self.coef_)
                   ELSE s1
           /\ last' = [op |-> "fit_model", args |-> <<Ne, Nr>>, out |-> r.out]
    /\ d' = SetAttr(d, "_data", data_cropped(d))
    /\ UNCHANGED <<book, n>>

\* lines 91-99: p.fit_model(Ne, Nr)
fit_model(Ne, Nr) ==
    /\ p # NoObj
    /\ LET s1 == SetAttr(SetAttr(p, "Ne", Ne), "Nr", Nr)
           X == get_X(d, Ne, Nr)
           y == [r \in 1..Len(data_cropped(d)) |-> data_cropped(d)[r].V]
           r == LinearRegression_fit(p.reg_model, X, y)
       IN  /\ p' = IF r.out.kind = "ok"
                   THEN SetAttr(SetAttr(s1, "reg_model", r.self), "w_vec",
                                <<r.self.intercept_>> \o r.self.coef_)
                   ELSE s1
           /\ last' = [op |-> "fit_model", args |-> <<Ne, Nr>>, out |-> r.out]
    /\ UNCHANGED <<book, d, n>>

Min(a, b) == IF a < b THEN a ELSE b

\* lines 101-103: w_vec[0:Ne+1]
alpha_coeff(self) == SubSeq(self.w_vec, 1, Min(self.Ne + 1, Len(self.w_vec)))

\* lines 105-107: w_vec[Ne+1::]
beta_coeff(self) == SubSeq(self.w_vec, self.Ne + 2, Len(self.w_vec))

\* lines 109-112
Poly_OCV(self, dod) ==
    IF ~HasAttr(self, "w_vec") THEN Raise("AttributeError", "w_vec")
    ELSE Value(TPolyval(Reverse(alpha_coeff(self)), dod))

\* lines 114-117
Poly_Rs(self, dod) ==
    IF ~HasAttr(self, "w_vec") THEN Raise("AttributeError", "w_vec")
    ELSE Value(TPolyval(Reverse(beta_coeff(self)), dod))

\* lines 119-121: OCV(dod) is evaluated first, then the current
\* c_rate*(data.nominal_capacity_mAh/1000), then Rs(dod)
Poly_modeled_terminal_voltage(self, dataset, dod, c_rate) ==
    LET ocv == Poly_OCV(self, dod) IN
    IF ocv.kind = "raise" THEN ocv
    ELSE IF ~HasAttr(dataset, "nominal_capacity_mAh")
         THEN Raise("AttributeError", "nominal_capacity_mAh")
    ELSE LET rs == Poly_Rs(self, dod) IN
         IF rs.kind = "raise" THEN rs
         ELSE Value(TSub(ocv.val,
                         TMul(RMul(c_rate, RDiv(dataset["nominal_capacity_mAh"], R(1000))),
                              rs.val)))

OCV(dod) ==
    /\ p # NoObj
    /\ last' = [op |-> "OCV", args |-> <<dod>>, out |-> Poly_OCV(p, dod)]
    /\ UNCHANGED <<book, d, p, n>>

Rs(dod) ==
    /\ p # NoObj
    /\ last' = [op |-> "Rs", args |-> <<dod>>, out |-> Poly_Rs(p, dod)]
    /\ UNCHANGED <<book, d, p, n>>

modeled_terminal_voltage(dod, c_rate) ==
    /\ p # NoObj
    /\ last' = [op |-> "modeled_terminal_voltage", args |-> <<dod, c_rate>>,
                out |-> Poly_modeled_terminal_voltage(p, d, dod, c_rate)]
    /\ UNCHANGED <<book, d, p, n>>

(* ---------------------------- NonParametric --------------------------- *)
\* Series.unique(): the distinct values in order of first appearance
RECURSIVE unique(_)
unique(s) ==
    IF s = <<>> THEN <<>>
    ELSE LET front == unique(SubSeq(s, 1, Len(s) - 1))
             x == s[Len(s)]
         IN  IF \E i \in 1..Len(front) : front[i] = x THEN front ELSE Append(front, x)

c_rates_of(dataset) ==
    unique([r \in 1..Len(data(dataset)) |-> data(dataset)[r].C_rate])

\* lines 26-33: n = NonParametric(d)
NonParametric_new(dataset) ==
    LET c_rates == c_rates_of(dataset) IN
    IF ~HasAttr(dataset, "nominal_capacity_mAh")
    THEN [self |-> NoObj, out |-> Raise("AttributeError", "nominal_capacity_mAh")]
    ELSE [self |-> [data |-> "d", c_rates |-> c_rates,
                    x |-> [i \in 1..Len(c_rates) |->
                             RMul(c_rates[i],
                                  RDiv(dataset["nominal_capacity_mAh"], R(1000)))]],
          out |-> Ok]

NonParametric_init ==
    /\ d # NoObj
    /\ n = NoObj
    /\ LET r == NonParametric_new(d) IN
       /\ n' = r.self
       /\ last' = [op |-> "NonParametric", args |-> <<>>, out |-> r.out]
    /\ UNCHANGED <<book, d, p>>

\* the value of a 0/0 or x/0 float division
NaN == <<0, 0>>

\* line 46-48: interp1d(x, y, fill_value='extrapolate')(x_new) on the points
\* pts (records with DoD and V), sorted by DoD first.  The set of possible
\* outcomes: an empty curve is refused; what a single point gives depends on
\* the library version (refused, or the 0/0 slope of the only segment).
interp1d(pts, x_new) ==
    LET s == SortSeq(pts, LAMBDA a, b : RLt(a.DoD, b.DoD))
        m == Len(s)
    IN  IF m = 0 THEN {Raise("ValueError", "x and y arrays must have at least 1 entries")}
        ELSE IF m = 1
             THEN {Raise("ValueError", "x and y arrays must have at least 2 entries"),
                   Value(NaN)}
        ELSE LET below == Cardinality({i \in 1..m : RLt(s[i].DoD, x_new)})
                 hi == (IF below < 1 THEN 1 ELSE IF below > m - 1 THEN m - 1 ELSE below) + 1
                 lo == hi - 1
             IN  IF s[hi].DoD = s[lo].DoD THEN {Value(NaN)}
                 ELSE {Value(RAdd(RMul(RDiv(RSub(s[hi].V, s[lo].V),
                                            RSub(s[hi].DoD, s[lo].DoD)),
                                       RSub(x_new, s[lo].DoD)),
                                  s[lo].V))}

\* lines 42-48
_get_v_terminal(dataset, dod, c_rate) ==
    interp1d(SelectSeq(data_cropped(dataset), LAMBDA row : row.C_rate = c_rate), dod)

\* lines 35-40: the list comprehension over the rates; the first rate whose
\* interpolation raises ends it.  The set of possible outcomes.
RECURSIVE _get_y(_, _, _, _)
_get_y(dataset, dod, c_rates, i) ==
    IF i = 0 THEN {Value(<<>>)}
    ELSE UNION { IF front.kind = "raise" THEN {front}
                 ELSE { IF v.kind = "raise" THEN v ELSE Value(Append(front.val, v.val))
                        : v \in _get_v_terminal(dataset, dod, c_rates[i]) }
                 : front \in _get_y(dataset, dod, c_rates, i - 1) }

RECURSIVE RSum(_)
RSum(s) == IF s = <<>> THEN R(0) ELSE RAdd(s[1], RSum(Tail(s)))

\* line 53: np.polyfit(x, y, deg=1) -> (slope, intercept).  Points whose x are
\* all equal (a single point among them) leave the line undetermined: the
\* routine warns and returns the least squares solution of least norm of its
\* column-scaled system, slope = mean(y)/(2*x0), intercept = mean(y)/2.
polyfit1(x, y) ==
    LET m == Len(x) IN
    IF m = 0 THEN {Raise("TypeError", "expected non-empty vector for x")}
    ELSE IF \E i \in 1..m : y[i] = NaN
         THEN {Raise("LinAlgError", "SVD did not converge"), Value(<<NaN, NaN>>)}
    ELSE LET Sx == RSum(x)
             Sy == RSum(y)
             Sxx == RSum([i \in 1..m |-> RMul(x[i], x[i])])
             Sxy == RSum([i \in 1..m |-> RMul(x[i], y[i])])
             det == RSub(RMul(R(m), Sxx), RMul(Sx, Sx))
         IN  IF det = R(0)
             THEN IF x[1] = R(0) THEN {Value(<<NaN, NaN>>)}
                  ELSE {Value(<<RDiv(RDiv(Sy, R(m)), RMul(R(2), x[1])),
                                RDiv(RDiv(Sy, R(m)), R(2))>>)}
             ELSE LET slope == RDiv(RSub(RMul(R(m), Sxy), RMul(Sx, Sy)), det)
                  IN  {Value(<<slope, RDiv(RSub(Sy, RMul(slope, Sx)), R(m))>>)}

\* lines 50-55: (-rs, ocv) of the fitted line.  The set of possible outcomes.
_get_params(self, dataset, dod) ==
    UNION { IF y.kind = "raise" THEN {y}
            ELSE { IF q.kind = "raise" THEN q
                   ELSE Value(<<IF q.val[1] = NaN THEN NaN ELSE RNeg(q.val[1]), q.val[2]>>)
                   : q \in polyfit1(self.x, y.val) }
            : y \in _get_y(dataset, dod, self.c_rates, Len(self.c_rates)) }

\* lines 57-59
NP_OCV_of(self, dataset, dod) ==
    { IF q.kind = "raise" THEN q ELSE Value(q.val[2]) : q \in _get_params(self, dataset, dod) }

\* lines 61-63
NP_Rs_of(self, dataset, dod) ==
    { IF q.kind = "raise" THEN q ELSE Value(q.val[1]) : q \in _get_params(self, dataset, dod) }

\* lines 65-67: OCV(dod) first, then the current, then Rs(dod)
NP_modeled_terminal_voltage_of(self, dataset, dod, c_rate) ==
    UNION { IF ocv.kind = "raise" THEN {ocv}
            ELSE IF ~HasAttr(dataset, "nominal_capacity_mAh")
                 THEN {Raise("AttributeError", "nominal_capacity_mAh")}
            ELSE { IF rs.kind = "raise" THEN rs
                   ELSE Value(TSub(ocv.val,
                                   TMul(RMul(c_rate,
                                             RDiv(dataset["nominal_capacity_mAh"], R(1000))),
                                        rs.val)))
                   : rs \in NP_Rs_of(self, dataset, dod) }
            : ocv \in NP_OCV_of(self, dataset, dod) }

NP_OCV(dod) ==
    /\ n # NoObj
    /\ \E out \in NP_OCV_of(n, d, dod) :
          last' = [op |-> "NP.OCV", args |-> <<dod>>, out |-> out]
    /\ UNCHANGED <<book, d, p, n>>

NP_Rs(dod) ==
    /\ n # NoObj
    /\ \E out \in NP_Rs_of(n, d, dod) :
          last' = [op |-> "NP.Rs", args |-> <<dod>>, out |-> out]
    /\ UNCHANGED <<book, d, p, n>>

NP_modeled_terminal_voltage(dod, c_rate) ==
    /\ n # NoObj
    /\ \E out \in NP_modeled_terminal_voltage_of(n, d, dod, c_rate) :
          last' = [op |-> "NP.modeled_terminal_voltage", args |-> <<dod, c_rate>>,
                   out |-> out]
    /\ UNCHANGED <<book, d, p, n>>

(* --------------------------- specifications --------------------------- *)
\* nothing constructed yet; the workbook on disk is one of Books
Init ==
    /\ book \in Books
    /\ d = NoObj
    /\ p = NoObj
    /\ n = NoObj
    /\ last = [op |-> "start", args |-> <<>>, out |-> Ok]

\* the state after d = DischargeData(book, DischargeVar.DOD, cap) returned
\* (default window 0..1; the repository's workbook holds DoD, preprocess.py
\* line 10), no estimator constructed yet
InitLoaded ==
    /\ book \in Books
    /\ \E x_axis \in {"DOD"}, cap \in Caps :
          LET r == load_data(NewObj, book, cap, x_axis) IN
          /\ r.out.kind = "ok"
          /\ d = SetAttr(SetAttr(r.self, "dod_lower", R(0)), "dod_upper", R(1))
          /\ last = [op |-> "DischargeData", args |-> <<x_axis, cap>>, out |-> Ok]
    /\ p = NoObj
    /\ n = NoObj

\* a loaded dataset and a NonParametric instance holding the attributes that
\* lines 28-33 assign, the currents being rate * capacity [Ah]
InitNP ==
    /\ book \in Books
    /\ \E x_axis \in DischargeVar, cap \in Caps :
          LET r == load_data(NewObj, book, cap, x_axis) IN
          /\ r.out.kind = "ok"
          /\ d = SetAttr(SetAttr(r.self, "dod_lower", R(0)), "dod_upper", R(1))
          /\ last = [op |-> "NonParametric", args |-> <<x_axis, cap>>, out |-> Ok]
    /\ p = NoObj
    /\ n = [data |-> "d", c_rates |-> c_rates_of(d),
            x |-> [i \in 1..Len(c_rates_of(d)) |->
                     RMul(c_rates_of(d)[i], d.nominal_capacity_Ah)]]

NextData ==
    \/ \E x_axis \in ConvArgs, cap \in Caps, lo \in WinVals, hi \in WinVals :
          DischargeData_init(x_axis, cap, lo, hi)
    \/ \E discharge_var \in ConvArgs, cap \in Caps : load_data_call(discharge_var, cap)
    \/ \E lo \in WinVals, hi \in WinVals : set_bounds(lo, hi)
    \/ view
    \/ restricted_view

NextModel ==
    \/ \E lo \in WinVals, hi \in WinVals : set_bounds(lo, hi)
    \/ PolynomialFit_init
    \/ \E Ne \in Degs, Nr \in Degs : fit_model(Ne, Nr)
    \/ \E dod \in Dods : OCV(dod)
    \/ \E dod \in Dods : Rs(dod)
    \/ \E dod \in Dods, c \in DOMAIN FloatOf : modeled_terminal_voltage(dod, FloatOf[c])
    \/ NonParametric_init

NextNP ==
    \/ \E lo \in WinVals, hi \in WinVals : set_bounds(lo, hi)
    \/ \E dod \in Dods : NP_OCV(dod)
    \/ \E dod \in Dods : NP_Rs(dod)
    \/ \E dod \in Dods, c \in DOMAIN FloatOf : NP_modeled_terminal_voltage(dod, FloatOf[c])

Next == NextData \/ NextModel

\* the whole program
Spec == Init /\ [][Next]_vars

\* the dataset alone
SpecData == Init /\ [][NextData]_vars

\* the estimators over a loaded dataset whose window the caller may change
SpecModel == InitLoaded /\ [][NextModel]_vars

\* the methods of a NonParametric instance
SpecNP == InitNP /\ [][NextNP]_vars

(* ------------------------------- claims ------------------------------- *)
LoadOps == {"DischargeData", "load_data"}
PolyQueries == {"OCV", "Rs", "modeled_terminal_voltage"}
ModelOps == {"PolynomialFit", "fit_model", "NonParametric",
             "NP.OCV", "NP.Rs", "NP.modeled_terminal_voltage"} \cup PolyQueries

\* row i of the full table lies strictly inside the current window
Inside(i) ==
    /\ d.dod_lower[1] * d._data[i].DoD[2] < d._data[i].DoD[1] * d.dod_lower[2]
    /\ d._data[i].DoD[1] * d.dod_upper[2] < d.dod_upper[1] * d._data[i].DoD[2]

\* C1: the restricted view answered is exactly the rows of the full table
\* with dod_lower < dod < dod_upper for the bounds current at the call, in
\* table order; rows on either bound are left out and no inside row is missing
C1_RestrictedViewIsStrictWindow ==
    last.op = "data_cropped" =>
        LET out == last.out.val
            keep == {i \in DOMAIN d._data : Inside(i)}
        IN  /\ Len(out) = Cardinality(keep)
            /\ \A i \in keep : out[Cardinality({j \in keep : j <= i})] = d._data[i]
            /\ \A k \in DOMAIN out :
                  out[k].DoD # d.dod_lower /\ out[k].DoD # d.dod_upper

\* a restricted view was answered that keeps a row and drops a row lying
\* exactly on a bound of a window other than the default one
C1_Witness ==
    /\ last.op = "data_cropped"
    /\ Len(last.out.val) > 0
    /\ <<d.dod_lower, d.dod_upper>> # <<R(0), R(1)>>
    /\ \E i \in DOMAIN d._data :
          d._data[i].DoD = d.dod_lower \/ d._data[i].DoD = d.dod_upper

RECURSIVE RowsBefore(_)
RowsBefore(s) == IF s = 1 THEN 0 ELSE RowsBefore(s - 1) + Len(book[s - 1].rows)

\* C4: after a successful load every row of the table is the converted input
\* (DoD: x; SoC: 1 - x; Ah: x/cap; mAh: x/(cap*1000)) with soc = 1 - dod and
\* current = rate * cap, rate being the number in the sheet's name
C4_LoadedRowsAreConverted ==
    (last.op \in LoadOps /\ last.out.kind = "ok") =>
        LET conv == last.args[1]
            cap == last.args[2]
        IN  /\ d.nominal_capacity_Ah = R(cap)
            /\ Len(d._data) = RowsBefore(Len(book) + 1)
            /\ \A s \in DOMAIN book : \A j \in DOMAIN book[s].rows :
                  LET row == d._data[RowsBefore(s) + j]
                      x == book[s].rows[j][1]
                      rate == FloatOf[book[s].name[Len(book[s].name)]]
                  IN  /\ conv = "DOD" => row.DoD = x
                      /\ conv = "SOC" => RAdd(row.DoD, x) = R(1)
                      /\ conv = "AH" => RMul(row.DoD, R(cap)) = x
                      /\ conv = "MAH" => RMul(row.DoD, R(cap * 1000)) = x
                      /\ RAdd(row.SoC, row.DoD) = R(1)
                      /\ row.I_A = RMul(rate, R(cap))
                      /\ row.C_rate = rate
                      /\ row.V = book[s].rows[j][2]

\* a dataset that already existed was reloaded from a workbook of several
\* sheets holding capacities in mAh
C4_Witness ==
    /\ last.op = "load_data"
    /\ last.out.kind = "ok"
    /\ last.args = <<"MAH", MaxCap>>
    /\ Len(book) > 1
    /\ Len(d._data) > MaxX

\* C5: a load whose convention is not one of the four (or is missing) fails,
\* construction binds no dataset, and a failed load on an existing dataset
\* leaves every field of it as it was
C5_FailedLoadChangesNothing ==
    [][(last'.op \in LoadOps /\ last'.args[1] \notin DischargeVar)
          => (last'.out.kind = "raise" /\ d' = d)]_vars

\* C2: a polynomial estimator is constructed without coefficients and only a
\* fit that returns gives it some, so "before the first fit" is "no
\* coefficients"; a query made then fails on the missing coefficients;
\* coefficients, once there, stay; a fit that returns leaves coefficients
\* that are the solution of this fit
C2_UnfitFitOneWay ==
    [][/\ last'.op = "PolynomialFit" => ~HasAttr(p', "w_vec")
       /\ (~HasAttr(p, "w_vec") /\ HasAttr(p', "w_vec"))
            => (last'.op = "fit_model" /\ last'.out.kind = "ok")
       /\ (last'.op \in PolyQueries /\ ~HasAttr(p, "w_vec"))
            => (last'.out.kind = "raise" /\ last'.out.what = "w_vec")
       /\ HasAttr(p, "w_vec") => HasAttr(p', "w_vec")
       /\ (last'.op = "fit_model" /\ last'.out.kind = "ok")
            => /\ HasAttr(p', "w_vec")
               /\ p'.Ne = last'.args[1] /\ p'.Nr = last'.args[2]
               /\ \A k \in DOMAIN p'.w_vec :
                     /\ p'.w_vec[k].lsq = k - 1
                     /\ p'.w_vec[k].X = get_X(d, p'.Ne, p'.Nr).rows]_vars

\* a fit with the largest OCV degree returned, over a view with at least as
\* many rows as the design matrix has columns
C2_Witness ==
    /\ last.op = "fit_model"
    /\ last.out.kind = "ok"
    /\ HasAttr(p, "w_vec")
    /\ p.Ne = MaxDeg
    /\ Len(data_cropped(d)) >= p.Ne + p.Nr + 1

\* C3: ModeledVoltage(dod, rate) of a fit estimator returns
\* OCV(dod) - rate * nominal_capacity * Rs(dod) and does not fail
C3_ModeledVoltageEquation ==
    (last.op = "modeled_terminal_voltage" /\ HasAttr(p, "w_vec")) =>
        /\ last.out.kind = "value"
        /\ last.out.val =
              TSub(Poly_OCV(p, last.args[1]).val,
                   TMul(RMul(last.args[2], d.nominal_capacity_Ah),
                        Poly_Rs(p, last.args[1]).val))

\* C7: a fit over a cropped view with fewer rows than the design matrix has
\* columns (Ne + Nr + 1) fails
C7_UnderdeterminedFitFails ==
    (last.op = "fit_model"
       /\ Len(data_cropped(d)) < last.args[1] + last.args[2] + 1)
        => last.out.kind = "raise"

\* C9: no operation of an estimator changes the dataset (table, nominal
\* capacity, window bounds), whether it returns or raises
C9_ModelsLeaveDatasetAlone ==
    [][last'.op \in ModelOps => d' = d]_vars

\* a fit raised on an estimator that holds coefficients of an earlier fit,
\* the window of the dataset having been changed
C9_Witness ==
    /\ last.op = "fit_model"
    /\ last.out.kind = "raise"
    /\ HasAttr(p, "w_vec")
    /\ <<d.dod_lower, d.dod_upper>> # <<R(0), R(1)>>

\* C10: whenever coefficients exist the stored degrees agree with them:
\* Ne + Nr + 2 numbers, Ne + 1 of them for the OCV and Nr + 1 for Rs
C10_DegreesAgreeWithCoefficients ==
    HasAttr(p, "w_vec") =>
        /\ Len(p.w_vec) = p.Ne + p.Nr + 2
        /\ Len(alpha_coeff(p)) = p.Ne + 1
        /\ Len(beta_coeff(p)) = p.Nr + 1

\* with at least two rates, for every queried dod at which each rate's curve
\* interpolates to a number and no higher current has a higher voltage, Rs is
\* a number, not negative, and for two rates the quotient of the voltage and
\* current differences
NP_RsLaw ==
    Len(n.c_rates) >= 2 =>
    \A dod \in Dods : \A y \in _get_y(d, dod, n.c_rates, Len(n.c_rates)) :
        (/\ y.kind = "value"
         /\ \A i \in DOMAIN y.val : y.val[i] # NaN
         /\ \A i, j \in DOMAIN y.val :
               RLt(n.x[i], n.x[j]) => ~RLt(y.val[i], y.val[j]))
        => \A out \in NP_Rs_of(n, d, dod) :
              /\ out.kind = "value"
              /\ out.val # NaN
              /\ ~RLt(out.val, R(0))
              /\ Len(n.x) = 2 =>
                    out.val = RDiv(RSub(y.val[1], y.val[2]), RSub(n.x[2], n.x[1]))

\* C8: on a dataset with at least two rates the non-parametric estimator
\* exists and answers Rs(dod) with minus the slope of the fitted line, which
\* is finite and not negative for physically ordered curves
C8_NonParametricRs ==
    (last.op = "NonParametric" /\ Len(c_rates_of(d)) >= 2) =>
        /\ last.out.kind = "ok"
        /\ n # NoObj
        /\ NP_RsLaw

====
